---- MODULE Spec2Model ----
(***************************************************************************)
(* The mock chat server of src/mock_opencode_server.py: a Flask            *)
(* application with two module-level dictionaries (sessions, messages),    *)
(* four handlers over them and a generator that streams a synthetic reply  *)
(* word by word.                                                           *)
(*                                                                         *)
(* Text is a sequence of atoms.  An atom is either one whitespace          *)
(* character or a non-empty piece of text without whitespace, so that      *)
(* str.split() and string concatenation are computed on the text itself.   *)
(***************************************************************************)
EXTENDS Integers, Sequences, FiniteSets, TLC

\* Bounds of the model.
MaxIds == 3        \* uuid.uuid4() values drawn in one run
MaxTime == 1       \* ticks of the clock read by time.time()
MaxThreads == 2    \* request threads that are past their first step at once

VARIABLES
  sessions,   \* dict sessions: session id -> session record
  messages,   \* dict messages: session id -> list of message records
  nextId,     \* index of the next value uuid.uuid4() yields
  now,        \* the clock read by time.time()
  thr,        \* request threads in flight, oldest first: a create_session
              \* between its two stores, or the generator of a streamed response
  created,    \* history: the create-session responses sent so far
  appended    \* history: per session id, the messages send_prompt appended

vars == <<sessions, messages, nextId, now, thr, created, appended>>

----------------------------------------------------------------------------
\* Text

Whitespace == {" ", "\t", "\n"}

\* str.split() with no argument: the maximal runs of non-whitespace atoms,
\* in order; runs of whitespace separate words and produce no empty word.
RECURSIVE SplitFrom(_, _, _, _)
SplitFrom(s, i, cur, acc) ==
  IF i > Len(s)
    THEN IF cur = <<>> THEN acc ELSE Append(acc, cur)
    ELSE IF s[i] \in Whitespace
           THEN SplitFrom(s, i + 1, <<>>, IF cur = <<>> THEN acc ELSE Append(acc, cur))
           ELSE SplitFrom(s, i + 1, Append(cur, s[i]), acc)

split(s) == SplitFrom(s, 1, <<>>, <<>>)

\* The f-string of line 77, cut at its two placeholders.
ReplyHead == <<"I", " ", "received", " ", "your", " ", "message:", " ", "'">>

ReplyMid ==
  <<"'.", " ", "This", " ", "is", " ", "a", " ", "mock", " ", "AI", " ",
    "response", " ", "for", " ", "testing", " ", "purposes.", " ", "The", " ",
    "message", " ", "was", " ", "sent", " ", "to", " ", "session", " ">>

ReplyTail == <<".">>

ai_response_content(message_content, session_id) ==
  ReplyHead \o message_content \o ReplyMid \o <<session_id>> \o ReplyTail

DefaultTitle == <<"New", " ", "Chat", " ", "Session">>

----------------------------------------------------------------------------
\* Identifiers and request inputs

\* The values str(uuid.uuid4()) yields, in the order drawn: each one new.
Uuids == <<"u1", "u2", "u3", "u4", "u5", "u6", "u7", "u8">>

\* Faulty variant: the generator repeats its first value.
uuid4_repeated == Uuids[1]

uuid4 == Uuids[nextId]

AllIds == {Uuids[i] : i \in 1..Len(Uuids)} \cup {"nope"}

\* Session identifiers a client may put in a path: the identifier of a stored
\* session, the uuid drawn last (a session's or a message's), or a made-up one.
PathIds == (DOMAIN sessions) \cup {Uuids[i] : i \in {nextId - 1} \ {0}} \cup {"nope"}

\* A request body as request.get_json() returns it: isNone when it returns
\* None (no JSON value to read, or the JSON value null), else a JSON object
\* with the given keys.
\* A part is a JSON object that may lack its text.
TextPart(t) == [type |-> "text", hasText |-> TRUE, text |-> t]

NoBody == [isNone |-> TRUE, keys |-> {}, title |-> <<>>, parts |-> <<>>]

EmptyBody == [isNone |-> FALSE, keys |-> {}, title |-> <<>>, parts |-> <<>>]

TitleBody == [isNone |-> FALSE, keys |-> {"title"}, title |-> <<"Demo">>, parts |-> <<>>]

HiBody ==
  [isNone |-> FALSE, keys |-> {"parts"}, title |-> <<>>,
   parts |-> <<TextPart(<<"hi">>)>>]

MixedBody ==
  [isNone |-> FALSE, keys |-> {"parts", "other"}, title |-> <<>>,
   parts |-> << TextPart(<<" ", "a">>),
                [type |-> "image", hasText |-> TRUE, text |-> <<"x">>],
                [type |-> "text", hasText |-> FALSE, text |-> <<>>],
                TextPart(<<" ", "\t", "b", " ">>) >>]

Bodies == {NoBody, EmptyBody, TitleBody, HiBody, MixedBody}

\* request.get_json() or {}
get_json_or_empty(body) == IF body.isNone THEN EmptyBody ELSE body

\* Faulty variant: "data and 'parts' not in data", which lets a missing or empty body
\* through.
invalid_format_nonempty_only(data) ==
  ~data.isNone /\ data.keys # {} /\ "parts" \notin data.keys

\* not data or 'parts' not in data
invalid_format(data) == data.isNone \/ data.keys = {} \/ "parts" \notin data.keys

\* Faulty variant: the title is read under a key the request never has.
get_title_wrong_key(data) == DefaultTitle

\* data.get('title', 'New Chat Session')
get_title(data) == IF "title" \in data.keys THEN data.title ELSE DefaultTitle

\* Faulty variant: the loop takes the text of every part, whatever its type.
RECURSIVE message_content_any_type(_)
message_content_any_type(parts) ==
  IF parts = <<>>
    THEN <<>>
    ELSE (IF Head(parts).hasText THEN Head(parts).text ELSE <<>>)
         \o message_content_any_type(Tail(parts))

\* The loop of lines 62-65 over data['parts'].
RECURSIVE message_content(_)
message_content(parts) ==
  IF parts = <<>>
    THEN <<>>
    ELSE (IF Head(parts).type = "text"
            THEN (IF Head(parts).hasText THEN Head(parts).text ELSE <<>>)
            ELSE <<>>)
         \o message_content(Tail(parts))

----------------------------------------------------------------------------
\* The store and the threads

Put(f, k, v) == [x \in (DOMAIN f) \cup {k} |-> IF x = k THEN v ELSE f[x]]

EmptyDict == [x \in {} |-> <<>>]

\* A response: the HTTP status and the JSON body (or the stream's mimetype).
Response(status, result) == [status |-> status, result |-> result]

Error(status, text) == Response(status, [error |-> text])

Remove(seq, t) == [j \in 1..(Len(seq) - 1) |-> IF j < t THEN seq[j] ELSE seq[j + 1]]

Init ==
  /\ sessions = EmptyDict
  /\ messages = EmptyDict
  /\ nextId = 1
  /\ now = 0
  /\ thr = <<>>
  /\ created = {}
  /\ appended = [s \in AllIds |-> <<>>]

\* time.time() is read from a clock that never runs backwards.
Tick ==
  /\ now < MaxTime
  /\ now' = now + 1
  /\ UNCHANGED <<sessions, messages, nextId, thr, created, appended>>

\* GET /app, lines 20-27.
get_app_info_response ==
  Response(200, [name |-> "OpenCode Mock Server", version |-> "1.0.0",
                 status |-> "running"])

get_app_info ==
  /\ get_app_info_response.status = 200
  /\ UNCHANGED vars

\* POST /session, lines 32-42: the session is built and stored in sessions.
new_session(body) ==
  [id |-> uuid4, title |-> get_title(get_json_or_empty(body)),
   created_at |-> now, messages |-> <<>>]

create_session_store(body) ==
  /\ Len(thr) < MaxThreads
  /\ nextId <= MaxIds
  /\ sessions' = Put(sessions, uuid4, new_session(body))
  /\ nextId' = nextId + 1
  /\ thr' = Append(thr, [pc |-> "create43", session |-> new_session(body)])
  /\ UNCHANGED <<messages, now, created, appended>>

\* POST /session, lines 43-49: the empty message list is stored and the
\* response is built from the session.
create_session_response(session) ==
  Response(200, [id |-> session.id, title |-> session.title,
                 created_at |-> session.created_at])

create_session_return(t) ==
  /\ thr[t].pc = "create43"
  /\ messages' = Put(messages, thr[t].session.id, <<>>)
  /\ created' = created \cup {create_session_response(thr[t].session)}
  /\ thr' = Remove(thr, t)
  /\ UNCHANGED <<sessions, nextId, now, appended>>

\* Faulty variant: list.insert(0, item).
insert_first(list, item) == <<item>> \o list

\* list.append, line 74.
append(list, item) == Append(list, item)

\* POST /session/<session_id>/prompt, lines 54-77 and 96.
user_message(body) ==
  [id |-> uuid4, role |-> "user", content |-> message_content(body.parts),
   timestamp |-> now]

\* The generator object of line 96, not yet started: it closes over
\* ai_response_content.
new_stream(sid, body) ==
  [pc |-> "stream", sid |-> sid, gen |-> "created",
   reply |-> ai_response_content(message_content(body.parts), sid),
   ai_message_id |-> "", words |-> <<>>, i |-> 0, received |-> <<>>]

\* Faulty variant: the body is validated before the session is looked up.
send_prompt_response_body_first(sid, body) ==
  IF invalid_format(body)
    THEN Error(400, "Invalid request format")
    ELSE IF sid \notin DOMAIN sessions
      THEN Error(404, "Session not found")
      ELSE IF sid \notin DOMAIN messages
        THEN Error(500, "KeyError")
        ELSE Response(200, "text/event-stream")

send_prompt_response(sid, body) ==
  IF sid \notin DOMAIN sessions
    THEN Error(404, "Session not found")
    ELSE IF invalid_format(body)
      THEN Error(400, "Invalid request format")
      ELSE IF sid \notin DOMAIN messages
        THEN Error(500, "KeyError")    \* messages[session_id] raises
        ELSE Response(200, "text/event-stream")

send_prompt(sid, body) ==
  IF send_prompt_response(sid, body).status \in {404, 400}
    THEN UNCHANGED vars
    ELSE /\ nextId <= MaxIds
         /\ nextId' = nextId + 1
         /\ IF send_prompt_response(sid, body).status = 500
              THEN UNCHANGED <<sessions, messages, now, thr, created, appended>>
              ELSE /\ Len(thr) < MaxThreads
                   /\ messages' = [messages EXCEPT ![sid] = append(@, user_message(body))]
                   /\ appended' = [appended EXCEPT ![sid] = Append(@, user_message(body))]
                   /\ thr' = Append(thr, new_stream(sid, body))
                   /\ UNCHANGED <<sessions, now, created>>

\* Faulty variant: is_chunk compares the enumerate index with len(words).
make_chunk_never_last(ai_message_id, words, i) ==
  [id |-> ai_message_id, content |-> words[i] \o <<" ">>, role |-> "assistant",
   timestamp |-> now, is_chunk |-> (i - 1 < Len(words))]

\* Faulty variant: the word is sent without the space after it.
make_chunk_bare_word(ai_message_id, words, i) ==
  [id |-> ai_message_id, content |-> words[i], role |-> "assistant",
   timestamp |-> now, is_chunk |-> (i - 1 < Len(words) - 1)]

\* generate_stream, lines 84-93: the chunk of the i-th word (i from 1; the
\* code's enumerate index is i - 1).
make_chunk(ai_message_id, words, i) ==
  [id |-> ai_message_id, content |-> words[i] \o <<" ">>, role |-> "assistant",
   timestamp |-> now, is_chunk |-> (i - 1 < Len(words) - 1)]

\* What the caller keeps of a chunk it received.
Received(chunk) ==
  [id |-> chunk.id, content |-> chunk.content, role |-> chunk.role,
   is_chunk |-> chunk.is_chunk]

\* The generator runs from where it is to its next yield, or to its end.
resume(g, ai_message_id, words) ==
  IF g.i < Len(words)
    THEN [g EXCEPT !.gen = "suspended", !.ai_message_id = ai_message_id,
                   !.words = words, !.i = g.i + 1,
                   !.received = Append(@, Received(make_chunk(ai_message_id, words, g.i + 1)))]
    ELSE [g EXCEPT !.gen = "finished", !.ai_message_id = ai_message_id,
                   !.words = words]

\* First next() on the generator: lines 81-82, then the loop to its first yield.
stream_start(t) ==
  /\ thr[t].pc = "stream"
  /\ thr[t].gen = "created"
  /\ nextId <= MaxIds
  /\ nextId' = nextId + 1
  /\ thr' = [thr EXCEPT ![t] = resume(thr[t], uuid4, split(thr[t].reply))]
  /\ UNCHANGED <<sessions, messages, now, created, appended>>

\* Faulty variant: the generator stores the reply as an assistant message when it ends.
stream_next_stores_reply(t) ==
  /\ thr[t].pc = "stream"
  /\ thr[t].gen = "suspended"
  /\ thr' = [thr EXCEPT ![t] = resume(thr[t], thr[t].ai_message_id, thr[t].words)]
  /\ messages' =
       IF thr[t].i < Len(thr[t].words)
         THEN messages
         ELSE [messages EXCEPT ![thr[t].sid] =
                 Append(@, [id |-> thr[t].ai_message_id, role |-> "assistant",
                            content |-> thr[t].reply, timestamp |-> now])]
  /\ UNCHANGED <<sessions, nextId, now, created, appended>>

\* A later next(): line 94, then the loop to the next yield or to the end.
stream_next(t) ==
  /\ thr[t].pc = "stream"
  /\ thr[t].gen = "suspended"
  /\ thr' = [thr EXCEPT ![t] = resume(thr[t], thr[t].ai_message_id, thr[t].words)]
  /\ UNCHANGED <<sessions, messages, nextId, now, created, appended>>

\* The generator is exhausted: the response is complete and its thread ends.
stream_close(t) ==
  /\ thr[t].pc = "stream"
  /\ thr[t].gen = "finished"
  /\ thr' = Remove(thr, t)
  /\ UNCHANGED <<sessions, messages, nextId, now, created, appended>>

\* The caller disconnects: the generator is dropped where it stands.
stream_abandon(t) ==
  /\ thr[t].pc = "stream"
  /\ thr[t].gen # "finished"
  /\ thr' = Remove(thr, t)
  /\ UNCHANGED <<sessions, messages, nextId, now, created, appended>>

\* GET /session/<session_id>/messages, lines 101-104.
get_messages_response(sid) ==
  IF sid \notin DOMAIN sessions
    THEN Error(404, "Session not found")
    ELSE Response(200, [messages |-> IF sid \in DOMAIN messages
                                       THEN messages[sid] ELSE <<>>])

get_messages(sid) ==
  /\ get_messages_response(sid).status \in {200, 404}
  /\ UNCHANGED vars

\* Faulty variant: every listed session carries the messages sent to it.
list_sessions_with_messages ==
  Response(200, [sessions |->
    {[sessions[k] EXCEPT !.messages =
        IF k \in DOMAIN messages THEN messages[k] ELSE <<>>] : k \in DOMAIN sessions}])

\* GET /sessions, line 109: the values of sessions (their order is not kept).
list_sessions_response ==
  Response(200, [sessions |-> {sessions[k] : k \in DOMAIN sessions}])

list_sessions ==
  /\ list_sessions_response.status = 200
  /\ UNCHANGED vars

\* app.run(host, port, debug=True), line 119: Flask's development server
\* serves each request in a thread of its own, so the steps of different
\* requests interleave.
Next ==
  \/ Tick
  \/ get_app_info
  \/ \E body \in Bodies : create_session_store(body)
  \/ \E t \in 1..Len(thr) : create_session_return(t)
  \/ \E sid \in PathIds, body \in Bodies : send_prompt(sid, body)
  \/ \E t \in 1..Len(thr) : stream_start(t)
  \/ \E t \in 1..Len(thr) : stream_next(t)
  \/ \E t \in 1..Len(thr) : stream_close(t)
  \/ \E t \in 1..Len(thr) : stream_abandon(t)
  \/ \E sid \in PathIds : get_messages(sid)
  \/ list_sessions

Spec == Init /\ [][Next]_vars

----------------------------------------------------------------------------
\* Vocabulary of the properties

Streams == {t \in 1..Len(thr) : thr[t].pc = "stream"}

Creating == {t \in 1..Len(thr) : thr[t].pc = "create43"}

\* Streams whose generator is exhausted: every fragment has been delivered.
Drained == {t \in Streams : thr[t].gen = "finished"}

\* Identifiers create-session has returned, and those of the sessions a
\* create-session call is still building.
ReturnedIds == {c.result.id : c \in created}

CreatingIds == {thr[t].session.id : t \in Creating}

IsPrefix(a, b) == Len(a) <= Len(b) /\ \A j \in 1..Len(a) : a[j] = b[j]

RECURSIVE Concat(_)
Concat(ss) == IF ss = <<>> THEN <<>> ELSE Head(ss) \o Concat(Tail(ss))

Contents(received) == [j \in 1..Len(received) |-> received[j].content]

\* The text with leading whitespace removed and every other run of whitespace,
\* the end of the text included, turned into one space.
RECURSIVE Collapse(_, _, _)
Collapse(s, inWord, out) ==
  IF s = <<>>
    THEN IF inWord THEN out \o <<" ">> ELSE out
    ELSE IF Head(s) \in Whitespace
           THEN Collapse(Tail(s), FALSE, IF inWord THEN out \o <<" ">> ELSE out)
           ELSE Collapse(Tail(s), TRUE, Append(out, Head(s)))

WordCount(s) ==
  Cardinality({j \in 1..Len(s) :
                 s[j] \notin Whitespace /\ (j = 1 \/ s[j - 1] \in Whitespace)})

NoParts(body) == body.isNone \/ "parts" \notin body.keys

----------------------------------------------------------------------------
\* C1: once the stream of the only prompt sent to a session is drained,
\* get-messages for that session returns exactly two messages: the user's,
\* with the submitted text, then the assistant's, with the synthetic reply,
\* the second not stamped earlier than the first.
C1_TwoMessagesAfterExchange ==
  \A t \in Drained :
    Len(appended[thr[t].sid]) = 1 =>
      LET r == get_messages_response(thr[t].sid) IN
        /\ r.status = 200
        /\ Len(r.result.messages) = 2
        /\ r.result.messages[1].role = "user"
        /\ r.result.messages[1].content = appended[thr[t].sid][1].content
        /\ r.result.messages[2].role = "assistant"
        /\ r.result.messages[2].content = thr[t].reply
        /\ r.result.messages[1].timestamp <= r.result.messages[2].timestamp

\* C2 as stated: the fragments of a drained stream, concatenated in the order
\* emitted, are the synthetic reply.
C2_ConcatIsReply ==
  \A t \in Drained : Concat(Contents(thr[t].received)) = thr[t].reply

\* C2 as amended: the fragments of a drained stream, concatenated in the order
\* emitted, are the synthetic reply with every run of whitespace turned into
\* one space, followed by one more space.
C2_ConcatIsCollapsedReply ==
  \A t \in Drained :
    Concat(Contents(thr[t].received)) = Collapse(thr[t].reply, FALSE, <<>>)

\* A drained stream whose reply has two whitespace characters in a row.
C2_Witness ==
  \E t \in Drained :
    \E j \in 1..(Len(thr[t].reply) - 1) :
      thr[t].reply[j] \in Whitespace /\ thr[t].reply[j + 1] \in Whitespace

\* C3: create-session never returns an identifier it returned before, and
\* every identifier it has returned is the id of an entry of list-sessions.
C3_FreshAndListed ==
  /\ [](\A id \in ReturnedIds :
          \E e \in list_sessions_response.result.sessions : e.id = id)
  /\ [][\A t \in Creating :
          create_session_return(t) => thr[t].session.id \notin ReturnedIds]_vars

\* Two sessions have been created and returned.
C3_Witness == Cardinality(ReturnedIds) >= 2

C6_MessagesInInsertionOrder ==
  /\ [](/\ \A sid \in AllIds \ (ReturnedIds \cup CreatingIds) :
             get_messages_response(sid) = Error(404, "Session not found")
        /\ \A sid \in ReturnedIds :
             /\ get_messages_response(sid).status = 200
             /\ get_messages_response(sid).result.messages = appended[sid])
  /\ [][\A sid \in ReturnedIds :
          IsPrefix(get_messages_response(sid).result.messages,
                   get_messages_response(sid)'.result.messages)]_vars

\* A created session with two messages.
C6_Witness == \E s \in ReturnedIds : Len(get_messages_response(s).result.messages) >= 2

\* C7: the fragments of a stream all carry the stream's response-message id
\* and the role assistant; every fragment that was followed by another has
\* is_chunk true; a drained stream has one fragment per word of the reply, at
\* least one, and its last fragment, and only that one, has is_chunk false.
C7_FragmentFlags ==
  \A t \in Streams :
    LET r == thr[t].received IN
      /\ \A j \in 1..Len(r) :
           /\ r[j].id = r[1].id
           /\ r[j].id = thr[t].ai_message_id
           /\ r[j].role = "assistant"
      /\ \A j \in 1..(Len(r) - 1) : r[j].is_chunk
      /\ t \in Drained =>
           /\ Len(r) >= 1
           /\ Len(r) = WordCount(thr[t].reply)
           /\ ~r[Len(r)].is_chunk
      /\ t \notin Drained /\ Len(r) < WordCount(thr[t].reply) =>
           \A j \in 1..Len(r) : r[j].is_chunk

\* A drained stream of several fragments.
C7_Witness == \E t \in Drained : Len(thr[t].received) > 1

\* C8: list-sessions returns the sessions created so far (besides them, only
\* sessions a create-session call is still building), each with the id, title
\* and creation time create-session returned, and no entry carries a message
\* sent to its session.
C8_ListIsMetadata ==
  LET listed == list_sessions_response.result.sessions IN
    /\ list_sessions_response.status = 200
    /\ ReturnedIds \subseteq {e.id : e \in listed}
    /\ {e.id : e \in listed} \subseteq ReturnedIds \cup CreatingIds
    /\ \A c \in created :
         \E e \in listed :
           /\ e.id = c.result.id
           /\ e.title = c.result.title
           /\ e.created_at = c.result.created_at
    /\ \A e \in listed :
         \A j \in 1..Len(appended[e.id]) :
           \A k \in 1..Len(e.messages) :
             e.messages[k] # appended[e.id][j]

\* A listed session to which a prompt has been sent.
C8_Witness ==
  \E e \in list_sessions_response.result.sessions :
    e.id \in ReturnedIds /\ appended[e.id] # <<>>

\* C9: a created session stays stored, with the identifier, title and
\* creation time create-session returned; the title is the requested one, or
\* "New Chat Session" when the request names none; no step removes or changes
\* a stored session, and a step changes a message sequence only by appending.
RequestedTitle(body) ==
  IF ~body.isNone /\ "title" \in body.keys THEN body.title ELSE DefaultTitle

C9_SessionsAreStable ==
  /\ [](\A c \in created :
          /\ c.result.id \in DOMAIN sessions
          /\ sessions[c.result.id].id = c.result.id
          /\ sessions[c.result.id].title = c.result.title
          /\ sessions[c.result.id].created_at = c.result.created_at)
  /\ [][/\ \A s \in DOMAIN sessions :
             s \in DOMAIN sessions' /\ sessions'[s] = sessions[s]
        /\ \A s \in DOMAIN messages :
             s \in DOMAIN messages' /\ IsPrefix(messages[s], messages'[s])
        /\ \A body \in Bodies :
             create_session_store(body) =>
               /\ sessions'[uuid4].id = uuid4
               /\ sessions'[uuid4].title = RequestedTitle(body)
               /\ sessions'[uuid4].created_at = now]_vars

\* Two created sessions, one titled as requested and one by default, the
\* first of which has since received a message.
C9_Witness ==
  /\ \E c \in created : c.result.title = <<"Demo">> /\ appended[c.result.id] # <<>>
  /\ \E c \in created : c.result.title = DefaultTitle

TextOfParts(parts) ==
  Concat([j \in 1..Len(parts) |->
            IF parts[j].type = "text" /\ parts[j].hasText
              THEN parts[j].text ELSE <<>>])

C11_OneAtomicAppend ==
  /\ [](\A t \in Streams :
          /\ thr[t].sid \in DOMAIN messages
          /\ \E j \in 1..Len(messages[thr[t].sid]) :
               /\ messages[thr[t].sid][j].role = "user"
               /\ thr[t].reply =
                    ai_response_content(messages[thr[t].sid][j].content, thr[t].sid))
  /\ [][/\ \A sid \in PathIds, body \in Bodies :
             (send_prompt_response(sid, body).status = 200 /\ send_prompt(sid, body)) =>
               /\ Len(messages'[sid]) = Len(messages[sid]) + 1
               /\ IsPrefix(messages[sid], messages'[sid])
               /\ messages'[sid][Len(messages'[sid])].role = "user"
               /\ messages'[sid][Len(messages'[sid])].content = TextOfParts(body.parts)
               /\ DOMAIN messages' = DOMAIN messages
               /\ \A s \in DOMAIN messages \ {sid} : messages'[s] = messages[s]
               /\ sessions' = sessions
               /\ Len(thr') = Len(thr) + 1
               /\ thr'[Len(thr')].pc = "stream"
               /\ thr'[Len(thr')].received = <<>>
        /\ \A t \in Streams :
             (stream_start(t) \/ stream_next(t) \/ stream_close(t) \/ stream_abandon(t))
               => sessions' = sessions /\ messages' = messages]_vars

\* A stream that has emitted fragments for a prompt with a part that is not
\* text, on a session that holds the one message of that prompt.
C11_Witness ==
  \E t \in Streams :
    /\ Len(thr[t].received) >= 1
    /\ Len(messages[thr[t].sid]) = 1
    /\ messages[thr[t].sid][1].content = TextOfParts(MixedBody.parts)
    /\ \E j \in 1..Len(MixedBody.parts) : MixedBody.parts[j].type # "text"

\* C12: sessions and messages always have the same keys, so that a prompt
\* which passes the known-session check with a well-formed body finds the
\* session's message list.
C12_SameKeys ==
  /\ DOMAIN sessions = DOMAIN messages
  /\ \A sid \in DOMAIN sessions, body \in Bodies :
       send_prompt_response(sid, body).status # 500

====
